---- MODULE Spec2Model ----
(***************************************************************************)
(* Verification model of wrathagom/lame-data, software/raspberry-pi:       *)
(*                                                                         *)
(*   gait_segmentation.py   segment_gait and _empty_result, modelled as a  *)
(*                          state machine that walks the function: input   *)
(*                          checks, window statistics, the window scan     *)
(*                          that emits raw candidates, the merge pass and  *)
(*                          the construction of the result record (Spec).  *)
(*   horse_recorder.py      the udp_listener thread and the start/stop     *)
(*                          request handlers over the shared               *)
(*                          recording_state, one step per statement        *)
(*                          (RecorderSpec).                                *)
(*                                                                         *)
(* Conventions.  Python lists are sequences; element k of a Python list is *)
(* element k+1 of the sequence.  Sample indices (boundaries, centers) keep *)
(* their Python values (first sample = 0).  Real-valued quantities are     *)
(* exact rationals <<numerator, denominator>> with a positive denominator, *)
(* except sample_rate in a denominator, which keeps its sign.  Confidences *)
(* and gait-change scores are in tenths (10 = 1.0, 6 = 0.6, 4 = 0.4).      *)
(***************************************************************************)
EXTENDS Integers, Sequences, FiniteSets, TLC

VARIABLES
    \* ---- segment_gait: arguments
    magnitude, sample_rate, movement_threshold, variance_threshold,
    frequency_threshold, min_segment_seconds,
    \* ---- segment_gait: control and locals
    pc, min_samples, window_centers, is_moving, frequencies,
    var_change, freq_change, gait_change_score, i,
    raw_boundaries, raw_types, raw_confidence, raw_kinds,
    final_boundaries, final_types, final_confidence, final_kinds, decisions,
    result,
    \* ---- horse_recorder: recording_state, the session files, the threads
    is_recording, session_file, samples_received, files,
    lpc, pending, ltmp, hpc, hfile, datagrams, closed_write

gaitVars == <<magnitude, sample_rate, movement_threshold, variance_threshold,
              frequency_threshold, min_segment_seconds,
              pc, min_samples, window_centers, is_moving, frequencies,
              var_change, freq_change, gait_change_score, i,
              raw_boundaries, raw_types, raw_confidence, raw_kinds,
              final_boundaries, final_types, final_confidence, final_kinds,
              decisions, result>>

recVars == <<is_recording, session_file, samples_received, files,
             lpc, pending, ltmp, hpc, hfile, datagrams, closed_write>>

vars == <<gaitVars, recVars>>

(***************************************************************************)
(* Bounds of the model.                                                    *)
(***************************************************************************)
MaxLen == 6          \* longest magnitude series

\* The arguments explored.  Samples are small integers; a window has
\* sample_rate samples, and DominantFrequency covers windows of up to 3.
Samples == {0, 1, 2}
SampleRates == {-1, 0, 1, 2, 3}
MovementThresholds == {<<1, 50>>, <<1, 2>>}
VarianceThresholds == {<<0, 1>>, <<1, 1>>}
FrequencyThresholds == {<<3, 10>>}
MinSegmentSeconds == {<<1, 2>>, <<1, 1>>, <<2, 1>>}

\* Python's None; a file handle is <<k>>, the k-th file opened
None == <<>>

Handle(k) == <<k>>

FileOf(h) == h[1]

(***************************************************************************)
(* Arithmetic helpers.                                                     *)
(***************************************************************************)
RECURSIVE Sum(_)
Sum(s) == IF s = <<>> THEN 0 ELSE Head(s) + Sum(Tail(s))

RECURSIVE SumSq(_)
SumSq(s) == IF s = <<>> THEN 0 ELSE Head(s) * Head(s) + SumSq(Tail(s))

Abs(x) == IF x < 0 THEN -x ELSE x

Last(s) == s[Len(s)]

\* a > b for rationals with positive denominators
RatGT(a, b) == a[1] * b[2] > b[1] * a[2]

\* len(range(start, stop, step)), step # 0
RangeLen(start, stop, step) ==
    IF step > 0
    THEN IF stop > start THEN (stop - start + step - 1) \div step ELSE 0
    ELSE IF stop < start THEN (start - stop + (-step) - 1) \div (-step) ELSE 0

(***************************************************************************)
(* numpy.var: the population variance, as the rational                     *)
(* (n * sum(x^2) - sum(x)^2) / n^2.                                        *)
(***************************************************************************)
VarNum(w) == Len(w) * SumSq(w) - Sum(w) * Sum(w)

Variance(w) == <<VarNum(w), Len(w) * Len(w)>>

(***************************************************************************)
(* _empty_result                                                            *)
(***************************************************************************)
\* the comparison with >= in place of >
ExceedsMutant(v, threshold) == ~RatGT(threshold, v)

\* var > movement_threshold (lines 63 and 198)
Exceeds(v, threshold) == RatGT(v, threshold)

SegType(moving) == IF moving THEN "moving" ELSE "stationary"

EmptyVar(mag) == IF Len(mag) > 0 THEN Variance(mag) ELSE <<0, 1>>

EmptyResult(mag, rate, mt) ==
    [boundaries |-> <<0>>,
     times      |-> <<<<0, 1>>>>,
     types      |-> <<SegType(Exceeds(EmptyVar(mag), mt))>>,
     durations  |-> <<<<Len(mag), rate>>>>,
     confidence |-> <<10>>,
     count      |-> 1]

(***************************************************************************)
(* segment_gait: windowing.  Window k (k = 0, 1, ...) starts at            *)
(* k * window_step and has window_size samples.                            *)
(***************************************************************************)
IsShort(n, rate) == n < rate * 2

WindowSize(rate) == rate

WindowStep(rate) == rate \div 2

\* int(min_segment_seconds * sample_rate): truncation towards zero
Trunc(num, den) == IF num >= 0 THEN num \div den ELSE -((-num) \div den)

MinSamples(mss, rate) == Trunc(mss[1] * rate, mss[2])

NumWindows(n, rate) ==
    RangeLen(0, n - WindowSize(rate) + 1, WindowStep(rate))

Window(mag, rate, k) ==
    SubSeq(mag, k * WindowStep(rate) + 1, k * WindowStep(rate) + WindowSize(rate))

WindowCenter(rate, k) == k * WindowStep(rate) + WindowSize(rate) \div 2

\* the windows k, k+1, ... in order
RECURSIVE WindowsFrom(_, _, _)
WindowsFrom(mag, rate, k) ==
    IF k >= NumWindows(Len(mag), rate) THEN <<>>
    ELSE <<Window(mag, rate, k)>> \o WindowsFrom(mag, rate, k + 1)

Windows(mag, rate) == WindowsFrom(mag, rate, 0)

RECURSIVE WindowCentersFrom(_, _, _)
WindowCentersFrom(count, rate, k) ==
    IF k >= count THEN <<>>
    ELSE <<WindowCenter(rate, k)>> \o WindowCentersFrom(count, rate, k + 1)

(***************************************************************************)
(* segment_gait: per-window statistics.                                    *)
(***************************************************************************)
IsMoving(w, mt) == Exceeds(Variance(w), mt)

(***************************************************************************)
(* The dominant frequency of a moving window, in Hz.  The window has       *)
(* sample_rate samples, so rfftfreq gives the bins 0, 1, ..., n \div 2 Hz  *)
(* and the band [0.5, 5.0] holds the bins 1..5.  numpy.hanning(n) is       *)
(* [1] for n = 1, [0, 0] for n = 2 and [0, 1, 0] for n = 3, which gives:   *)
(*   n = 1: the spectrum has one bin, so the code appends 0.0;             *)
(*   n = 2: the tapered window is all zero, the masked spectrum is [0, 0], *)
(*          argmax is 0 and the frequency is freq_bins[0] = 0;             *)
(*   n = 3: the tapered window is [0, c, 0] with c = w[1] - mean(w) (the   *)
(*          middle sample, w[2] below), the masked spectrum is [0, |c|],   *)
(*          argmax is 1 iff c # 0, that is iff 3 * w[1] # sum(w).          *)
(* Larger windows are outside SampleRates.                                 *)
(***************************************************************************)
DominantFrequency(w) ==
    CASE Len(w) = 1 -> 0
      [] Len(w) = 2 -> 0
      [] Len(w) = 3 -> IF 3 * w[2] # Sum(w) THEN 1 ELSE 0

Frequency(w, mt) == IF IsMoving(w, mt) THEN DominantFrequency(w) ELSE 0

RECURSIVE MovingFlags(_, _)
MovingFlags(ws, mt) ==
    IF ws = <<>> THEN <<>>
    ELSE <<IsMoving(Head(ws), mt)>> \o MovingFlags(Tail(ws), mt)

RECURSIVE Frequencies(_, _)
Frequencies(ws, mt) ==
    IF ws = <<>> THEN <<>>
    ELSE <<Frequency(Head(ws), mt)>> \o Frequencies(Tail(ws), mt)

\* variances[is_moving], as the numerators over the common denominator n^2
RECURSIVE MovingVariances(_, _)
MovingVariances(ws, mt) ==
    IF ws = <<>> THEN <<>>
    ELSE (IF IsMoving(Head(ws), mt) THEN <<VarNum(Head(ws))>> ELSE <<>>)
         \o MovingVariances(Tail(ws), mt)

(***************************************************************************)
(* var_change of window k (1-based).  With mv the moving variances,        *)
(* m = len(mv), S1 = sum(mv), S2 = sum(mv^2) and D = m*S2 - S1^2:          *)
(* std(mv) = sqrt(D)/m, so std > 0 iff D > 0, and                          *)
(* |v - mean| / std > p/q  iff  (q * |m*v - S1|)^2 > p^2 * D  for p >= 0.  *)
(* The code computes in doubles.  Where the exact values decide the        *)
(* comparison the rounded ones decide it the same way; where the exact     *)
(* values are equal (D = 0 with m > 1, or a z-score equal to the           *)
(* threshold) the rounding residue decides: the model allows both          *)
(* outcomes there, which covers whatever the doubles give.                 *)
(***************************************************************************)
VarChangeOutcomes(ws, k, mt, vt) ==
    LET mv == MovingVariances(ws, mt)
        m  == Len(mv)
        S1 == Sum(mv)
        D  == m * SumSq(mv) - S1 * S1
        dev == vt[2] * Abs(m * VarNum(ws[k]) - S1)
    IN  CASE m <= 1 -> {FALSE}
          [] m > 1 /\ D = 0 -> BOOLEAN
          [] m > 1 /\ D > 0 /\ vt[1] < 0 -> {TRUE}
          [] m > 1 /\ D > 0 /\ vt[1] >= 0 /\ dev * dev > vt[1] * vt[1] * D -> {TRUE}
          [] m > 1 /\ D > 0 /\ vt[1] >= 0 /\ dev * dev < vt[1] * vt[1] * D -> {FALSE}
          [] m > 1 /\ D > 0 /\ vt[1] >= 0 /\ dev * dev = vt[1] * vt[1] * D -> BOOLEAN

BothMoving(mov, k) == k > 1 /\ mov[k] /\ mov[k - 1]

\* the var_change flags of windows 1..k; FALSE where the code does not evaluate it
RECURSIVE VarChangesUpTo(_, _, _, _, _)
VarChangesUpTo(ws, mov, mt, vt, k) ==
    IF k = 0 THEN {<<>>}
    ELSE LET out == IF BothMoving(mov, k) THEN VarChangeOutcomes(ws, k, mt, vt)
                    ELSE {FALSE}
         IN  {Append(p, b) : p \in VarChangesUpTo(ws, mov, mt, vt, k - 1), b \in out}

VarChanges(ws, mov, mt, vt) == VarChangesUpTo(ws, mov, mt, vt, Len(ws))

FreqChange(f, g, ft) == ft[2] * Abs(f - g) > ft[1]

\* 0.6 * float(var_change) + 0.4 * float(freq_change), in tenths
Score(vc, fc) == 6 * (IF vc THEN 1 ELSE 0) + 4 * (IF fc THEN 1 ELSE 0)

\* freq_change of all windows; FALSE where the code does not evaluate it
FreqChanges(mov, frq, ft) ==
    [k \in 1..Len(mov) |->
        BothMoving(mov, k) /\ FreqChange(frq[k], frq[k - 1], ft)]

\* gait_change_score: np.zeros, then set where both windows are moving
Scores(mov, vc, fc) ==
    [k \in 1..Len(mov) |-> IF BothMoving(mov, k) THEN Score(vc[k], fc[k]) ELSE 0]

\* the threshold test with >= in place of >
GaitChangeDetectedMutant(score) == score >= 4

\* gait_change_score[i] > 0.4
GaitChangeDetected(score) == score > 4

(***************************************************************************)
(* segment_gait: the merge pass.                                           *)
(***************************************************************************)
FarEnough(c, last, ms) == c - last >= ms

IsMovementChange(t, lt) ==
    \/ t # lt
    \/ (t = "stationary" /\ lt = "moving")
    \/ (t = "moving" /\ lt = "stationary")

\* the confidence test with >= in place of >
ConfidenceWinsMutant(c, lc) == c >= lc

ConfidenceWins(c, lc) == c > lc

\* the write to index 0 in place of index -1
ReplaceFirst(s, v) == [s EXCEPT ![1] = v]

\* final_xxx[-1] = v
ReplaceLast(s, v) == [s EXCEPT ![Len(s)] = v]

(***************************************************************************)
(* segment_gait: times and durations of the result.                        *)
(***************************************************************************)
Times(b, rate) == [k \in 1..Len(b) |-> <<b[k], rate>>]

Durations(b, n, rate) ==
    [k \in 1..Len(b) |->
        IF k < Len(b) THEN <<b[k + 1] - b[k], rate>> ELSE <<n - b[k], rate>>]

(***************************************************************************)
(* The recorder's state stays put while segment_gait runs, and the other   *)
(* way round.                                                              *)
(***************************************************************************)
NoFiles == <<>>

RecorderInit ==
    /\ is_recording = FALSE
    /\ session_file = None
    /\ samples_received = 0
    /\ files = NoFiles
    /\ lpc = "recv"
    /\ pending = 0
    /\ ltmp = 0
    /\ hpc = "idle"
    /\ hfile = None
    /\ datagrams = 0
    /\ closed_write = FALSE

(***************************************************************************)
(* segment_gait: the state at the call.                                    *)
(***************************************************************************)
Magnitudes == UNION {[1..n -> Samples] : n \in 0..MaxLen}

LocalsInit ==
    /\ pc = "start"
    /\ min_samples = 0
    /\ window_centers = <<>>
    /\ is_moving = <<>>
    /\ frequencies = <<>>
    /\ var_change = <<>>
    /\ freq_change = <<>>
    /\ gait_change_score = <<>>
    /\ i = 0
    /\ raw_boundaries = <<>>
    /\ raw_types = <<>>
    /\ raw_confidence = <<>>
    /\ raw_kinds = <<>>
    /\ final_boundaries = <<>>
    /\ final_types = <<>>
    /\ final_confidence = <<>>
    /\ final_kinds = <<>>
    /\ decisions = <<>>
    /\ result = None

Init ==
    /\ magnitude \in Magnitudes
    /\ sample_rate \in SampleRates
    /\ movement_threshold \in MovementThresholds
    /\ variance_threshold \in VarianceThresholds
    /\ frequency_threshold \in FrequencyThresholds
    /\ min_segment_seconds \in MinSegmentSeconds
    /\ LocalsInit
    /\ RecorderInit

args == <<magnitude, sample_rate, movement_threshold, variance_threshold,
          frequency_threshold, min_segment_seconds>>

stats == <<min_samples, window_centers, is_moving, frequencies,
           var_change, freq_change, gait_change_score>>

raws == <<raw_boundaries, raw_types, raw_confidence, raw_kinds>>

finals == <<final_boundaries, final_types, final_confidence, final_kinds,
            decisions>>

(***************************************************************************)
(* Lines 34-37: fewer than two seconds of data.                            *)
(***************************************************************************)
ShortInput ==
    /\ pc = "start"
    /\ IsShort(Len(magnitude), sample_rate)
    /\ result' = EmptyResult(magnitude, sample_rate, movement_threshold)
    /\ pc' = "done"
    /\ UNCHANGED <<args, stats, raws, finals, i, recVars>>

(***************************************************************************)
(* Line 49: range() with window_step = 0 raises ValueError.                *)
(***************************************************************************)
RangeRaises ==
    /\ pc = "start"
    /\ ~IsShort(Len(magnitude), sample_rate)
    /\ WindowStep(sample_rate) = 0
    /\ pc' = "raised"
    /\ UNCHANGED <<args, stats, raws, finals, i, result, recVars>>

(***************************************************************************)
(* Lines 55-57: fewer than two windows.                                    *)
(***************************************************************************)
TooFewWindows ==
    /\ pc = "start"
    /\ ~IsShort(Len(magnitude), sample_rate)
    /\ WindowStep(sample_rate) # 0
    /\ NumWindows(Len(magnitude), sample_rate) < 2
    /\ result' = EmptyResult(magnitude, sample_rate, movement_threshold)
    /\ pc' = "done"
    /\ UNCHANGED <<args, stats, raws, finals, i, recVars>>

(***************************************************************************)
(* Lines 39-127: the windows, their statistics, the gait-change scores and *)
(* the first raw boundary.                                                 *)
(***************************************************************************)
ComputeWindows ==
    /\ pc = "start"
    /\ ~IsShort(Len(magnitude), sample_rate)
    /\ WindowStep(sample_rate) # 0
    /\ NumWindows(Len(magnitude), sample_rate) >= 2
    /\ \E ws \in {Windows(magnitude, sample_rate)} :
       \E mov \in {MovingFlags(ws, movement_threshold)} :
       \E frq \in {Frequencies(ws, movement_threshold)} :
       \E vc \in VarChanges(ws, mov, movement_threshold, variance_threshold) :
       \E fc \in {FreqChanges(mov, frq, frequency_threshold)} :
           /\ min_samples' = MinSamples(min_segment_seconds, sample_rate)
           /\ window_centers' = WindowCentersFrom(Len(ws), sample_rate, 0)
           /\ is_moving' = mov
           /\ frequencies' = frq
           /\ var_change' = vc
           /\ freq_change' = fc
           /\ gait_change_score' = Scores(mov, vc, fc)
           /\ raw_boundaries' = <<0>>
           /\ raw_types' = <<SegType(mov[1])>>
           /\ raw_confidence' = <<10>>
           /\ raw_kinds' = <<"Initial">>
    /\ i' = 0
    /\ pc' = "scan"
    /\ UNCHANGED <<args, finals, result, recVars>>

(***************************************************************************)
(* Lines 129-142: one iteration of the window scan, for window i.          *)
(***************************************************************************)
Emit(kind, type, conf) ==
    /\ raw_boundaries' = Append(raw_boundaries, window_centers[i + 1])
    /\ raw_types' = Append(raw_types, type)
    /\ raw_confidence' = Append(raw_confidence, conf)
    /\ raw_kinds' = Append(raw_kinds, kind)

MovementChanged(k) == k > 0 /\ is_moving[k + 1] # is_moving[k]

ScanTransition ==
    /\ pc = "scan"
    /\ i < Len(window_centers)
    /\ MovementChanged(i)
    /\ Emit("MovementTransition", SegType(is_moving[i + 1]), 10)
    /\ i' = i + 1
    /\ UNCHANGED <<args, stats, finals, pc, result, recVars>>

ScanGaitChange ==
    /\ pc = "scan"
    /\ i < Len(window_centers)
    /\ ~MovementChanged(i)
    /\ GaitChangeDetected(gait_change_score[i + 1])
    /\ Emit("GaitChange", "moving", gait_change_score[i + 1])
    /\ i' = i + 1
    /\ UNCHANGED <<args, stats, finals, pc, result, recVars>>

ScanNothing ==
    /\ pc = "scan"
    /\ i < Len(window_centers)
    /\ ~MovementChanged(i)
    /\ ~GaitChangeDetected(gait_change_score[i + 1])
    /\ i' = i + 1
    /\ UNCHANGED <<args, stats, raws, finals, pc, result, recVars>>

(***************************************************************************)
(* Lines 145-147: the merge pass starts from the first raw boundary.       *)
(***************************************************************************)
MergeInit ==
    /\ pc = "scan"
    /\ i = Len(window_centers)
    /\ final_boundaries' = <<raw_boundaries[1]>>
    /\ final_types' = <<raw_types[1]>>
    /\ final_confidence' = <<raw_confidence[1]>>
    /\ final_kinds' = <<raw_kinds[1]>>
    /\ decisions' = <<"seed">>
    /\ i' = 1
    /\ pc' = "merge"
    /\ UNCHANGED <<args, stats, raws, result, recVars>>

(***************************************************************************)
(* Lines 149-163: one iteration of the merge pass, for raw candidate i.    *)
(***************************************************************************)
MergeAppend ==
    /\ pc = "merge"
    /\ i < Len(raw_boundaries)
    /\ FarEnough(raw_boundaries[i + 1], Last(final_boundaries), min_samples)
    /\ final_boundaries' = Append(final_boundaries, raw_boundaries[i + 1])
    /\ final_types' = Append(final_types, raw_types[i + 1])
    /\ final_confidence' = Append(final_confidence, raw_confidence[i + 1])
    /\ final_kinds' = Append(final_kinds, raw_kinds[i + 1])
    /\ decisions' = Append(decisions, "append")
    /\ i' = i + 1
    /\ UNCHANGED <<args, stats, raws, pc, result, recVars>>

Overwrites(k) ==
    \/ IsMovementChange(raw_types[k], Last(final_types))
    \/ ConfidenceWins(raw_confidence[k], Last(final_confidence))

MergeOverwrite ==
    /\ pc = "merge"
    /\ i < Len(raw_boundaries)
    /\ ~FarEnough(raw_boundaries[i + 1], Last(final_boundaries), min_samples)
    /\ Overwrites(i + 1)
    /\ final_boundaries' = ReplaceLast(final_boundaries, raw_boundaries[i + 1])
    /\ final_types' = ReplaceLast(final_types, raw_types[i + 1])
    /\ final_confidence' = ReplaceLast(final_confidence, raw_confidence[i + 1])
    /\ final_kinds' = ReplaceLast(final_kinds, raw_kinds[i + 1])
    /\ decisions' = Append(decisions, "overwrite")
    /\ i' = i + 1
    /\ UNCHANGED <<args, stats, raws, pc, result, recVars>>

MergeDiscard ==
    /\ pc = "merge"
    /\ i < Len(raw_boundaries)
    /\ ~FarEnough(raw_boundaries[i + 1], Last(final_boundaries), min_samples)
    /\ ~Overwrites(i + 1)
    /\ decisions' = Append(decisions, "discard")
    /\ i' = i + 1
    /\ UNCHANGED <<args, stats, raws, final_boundaries, final_types,
                   final_confidence, final_kinds, pc, result, recVars>>

(***************************************************************************)
(* Lines 165-189: times, durations and the result record.                  *)
(***************************************************************************)
Finish ==
    /\ pc = "merge"
    /\ i = Len(raw_boundaries)
    /\ result' = [boundaries |-> final_boundaries,
                  times      |-> Times(final_boundaries, sample_rate),
                  types      |-> final_types,
                  durations  |-> Durations(final_boundaries, Len(magnitude),
                                           sample_rate),
                  confidence |-> final_confidence,
                  count      |-> Len(final_boundaries)]
    /\ pc' = "done"
    /\ UNCHANGED <<args, stats, raws, finals, i, recVars>>

Next ==
    \/ ShortInput
    \/ RangeRaises
    \/ TooFewWindows
    \/ ComputeWindows
    \/ ScanTransition
    \/ ScanGaitChange
    \/ ScanNothing
    \/ MergeInit
    \/ MergeAppend
    \/ MergeOverwrite
    \/ MergeDiscard
    \/ Finish

Spec == Init /\ [][Next]_vars

(***************************************************************************)
(* horse_recorder.py.  recording_state is shared, without a lock, by the   *)
(* udp_listener thread and the request handlers; each action below is one  *)
(* statement (one read or one write of recording_state, or one file        *)
(* operation) of one of them, so the statements interleave freely.         *)
(* Requests are handled one at a time (the handlers do not overlap each    *)
(* other; they overlap the listener).  A session file is                   *)
(* [lines, total, closed]: the lines written so far ("header", "row",      *)
(* "end", "total"), the value <<n>> of its '# Total Samples' line, and     *)
(* whether close() was called.  closed_write records that a write was      *)
(* attempted on a closed file (Python raises ValueError, which the         *)
(* listener catches).                                                      *)
(***************************************************************************)
MaxDatagrams == 2        \* datagrams the listener receives
MaxSamples == 2          \* samples ('|'-separated) in one datagram
MaxSessions == 2         \* sessions started

WriteLine(fs, h, line) == [fs EXCEPT ![FileOf(h)].lines = Append(@, line)]

CountRows(lines) == Cardinality({k \in 1..Len(lines) : lines[k] = "row"})

gaitIdle == gaitVars

\* ---- udp_listener, lines 43-70

\* line 45, a datagram of samples
Receive ==
    /\ lpc = "recv"
    /\ datagrams < MaxDatagrams
    /\ \E n \in 1..MaxSamples : pending' = n
    /\ datagrams' = datagrams + 1
    /\ lpc' = "check_recording"
    /\ UNCHANGED <<is_recording, session_file, samples_received, files, ltmp,
                   hpc, hfile, closed_write, gaitIdle>>

\* lines 48-57, a "BAT," datagram: only device_status changes
ReceiveBattery ==
    /\ lpc = "recv"
    /\ datagrams < MaxDatagrams
    /\ datagrams' = datagrams + 1
    /\ UNCHANGED <<is_recording, session_file, samples_received, files, lpc,
                   pending, ltmp, hpc, hfile, closed_write, gaitIdle>>

\* line 58, left operand: recording_state['is_recording']
CheckRecording ==
    /\ lpc = "check_recording"
    /\ lpc' = IF is_recording THEN "check_file" ELSE "recv"
    /\ pending' = IF is_recording THEN pending ELSE 0
    /\ UNCHANGED <<is_recording, session_file, samples_received, files, ltmp,
                   hpc, hfile, datagrams, closed_write, gaitIdle>>

\* line 58, right operand: recording_state['session_file']
CheckFile ==
    /\ lpc = "check_file"
    /\ lpc' = IF session_file # None THEN "write" ELSE "recv"
    /\ pending' = IF session_file # None THEN pending ELSE 0
    /\ UNCHANGED <<is_recording, session_file, samples_received, files, ltmp,
                   hpc, hfile, datagrams, closed_write, gaitIdle>>

\* line 63: recording_state['session_file'].write(row)
WriteRow ==
    /\ lpc = "write"
    /\ session_file # None
    /\ ~files[FileOf(session_file)].closed
    /\ files' = WriteLine(files, session_file, "row")
    /\ lpc' = "read_count"
    /\ UNCHANGED <<is_recording, session_file, samples_received, pending,
                   ltmp, hpc, hfile, datagrams, closed_write, gaitIdle>>

\* line 63 on a closed file: ValueError, caught at line 69
WriteRowClosed ==
    /\ lpc = "write"
    /\ session_file # None
    /\ files[FileOf(session_file)].closed
    /\ closed_write' = TRUE
    /\ lpc' = "recv"
    /\ pending' = 0
    /\ UNCHANGED <<is_recording, session_file, samples_received, files, ltmp,
                   hpc, hfile, datagrams, gaitIdle>>

\* line 63 or 65 when session_file is None by now: AttributeError, caught at line 69
NoFileError ==
    /\ lpc \in {"write", "flush"}
    /\ session_file = None
    /\ lpc' = "recv"
    /\ pending' = 0
    /\ UNCHANGED <<is_recording, session_file, samples_received, files, ltmp,
                   hpc, hfile, datagrams, closed_write, gaitIdle>>

\* line 64, the read of samples_received
ReadCount ==
    /\ lpc = "read_count"
    /\ ltmp' = samples_received
    /\ lpc' = "store_count"
    /\ UNCHANGED <<is_recording, session_file, samples_received, files, pending,
                   hpc, hfile, datagrams, closed_write, gaitIdle>>

\* line 64, the store of samples_received + 1; then the next sample or line 65
StoreCount ==
    /\ lpc = "store_count"
    /\ samples_received' = ltmp + 1
    /\ pending' = pending - 1
    /\ lpc' = IF pending > 1 THEN "write" ELSE "flush"
    /\ UNCHANGED <<is_recording, session_file, files, ltmp, hpc, hfile,
                   datagrams, closed_write, gaitIdle>>

\* line 65: flush() (on a closed file: ValueError, caught at line 69)
Flush ==
    /\ lpc = "flush"
    /\ session_file # None
    /\ lpc' = "recv"
    /\ UNCHANGED <<is_recording, session_file, samples_received, files, pending,
                   ltmp, hpc, hfile, datagrams, closed_write, gaitIdle>>

\* ---- start_recording, lines 116-144

\* line 117
StartCheck ==
    /\ hpc = "idle"
    /\ Len(files) < MaxSessions
    /\ hpc' = IF is_recording THEN "idle" ELSE "start_open"
    /\ UNCHANGED <<is_recording, session_file, samples_received, files, lpc,
                   pending, ltmp, hfile, datagrams, closed_write, gaitIdle>>

\* lines 127-131: open the session file, write the three '#' lines and the header
StartOpen ==
    /\ hpc = "start_open"
    /\ files' = Append(files, [lines |-> <<"header">>, total |-> None,
                               closed |-> FALSE])
    /\ hfile' = Handle(Len(files) + 1)
    /\ hpc' = "start_set_recording"
    /\ UNCHANGED <<is_recording, session_file, samples_received, lpc, pending,
                   ltmp, datagrams, closed_write, gaitIdle>>

\* line 133
StartSetRecording ==
    /\ hpc = "start_set_recording"
    /\ is_recording' = TRUE
    /\ hpc' = "start_set_file"
    /\ UNCHANGED <<session_file, samples_received, files, lpc, pending, ltmp,
                   hfile, datagrams, closed_write, gaitIdle>>

\* line 134
StartSetFile ==
    /\ hpc = "start_set_file"
    /\ session_file' = hfile
    /\ hpc' = "start_reset_count"
    /\ UNCHANGED <<is_recording, samples_received, files, lpc, pending, ltmp,
                   hfile, datagrams, closed_write, gaitIdle>>

\* line 138 (lines 135-137 set session_start, location and notes)
StartResetCount ==
    /\ hpc = "start_reset_count"
    /\ samples_received' = 0
    /\ hpc' = "idle"
    /\ UNCHANGED <<is_recording, session_file, files, lpc, pending, ltmp,
                   hfile, datagrams, closed_write, gaitIdle>>

\* ---- stop_recording, lines 147-167

\* lines 148 and 151
StopCheck ==
    /\ hpc = "idle"
    /\ hpc' = IF ~is_recording THEN "idle"
              ELSE IF session_file # None THEN "stop_end_time"
              ELSE "stop_clear_recording"
    /\ UNCHANGED <<is_recording, session_file, samples_received, files, lpc,
                   pending, ltmp, hfile, datagrams, closed_write, gaitIdle>>

\* line 152
StopEndTime ==
    /\ hpc = "stop_end_time"
    /\ files' = WriteLine(files, session_file, "end")
    /\ hpc' = "stop_total"
    /\ UNCHANGED <<is_recording, session_file, samples_received, lpc, pending,
                   ltmp, hfile, datagrams, closed_write, gaitIdle>>

\* line 153
StopTotal ==
    /\ hpc = "stop_total"
    /\ files' = [WriteLine(files, session_file, "total")
                    EXCEPT ![FileOf(session_file)].total = <<samples_received>>]
    /\ hpc' = "stop_close"
    /\ UNCHANGED <<is_recording, session_file, samples_received, lpc, pending,
                   ltmp, hfile, datagrams, closed_write, gaitIdle>>

\* line 154
StopClose ==
    /\ hpc = "stop_close"
    /\ files' = [files EXCEPT ![FileOf(session_file)].closed = TRUE]
    /\ hpc' = "stop_clear_recording"
    /\ UNCHANGED <<is_recording, session_file, samples_received, lpc, pending,
                   ltmp, hfile, datagrams, closed_write, gaitIdle>>

\* line 159 (lines 156-157 read session_start and samples_received for the reply)
StopClearRecording ==
    /\ hpc = "stop_clear_recording"
    /\ is_recording' = FALSE
    /\ hpc' = "stop_clear_file"
    /\ UNCHANGED <<session_file, samples_received, files, lpc, pending, ltmp,
                   hfile, datagrams, closed_write, gaitIdle>>

\* line 160 (line 161 clears session_start)
StopClearFile ==
    /\ hpc = "stop_clear_file"
    /\ session_file' = None
    /\ hpc' = "idle"
    /\ UNCHANGED <<is_recording, samples_received, files, lpc, pending, ltmp,
                   hfile, datagrams, closed_write, gaitIdle>>

RecorderNext ==
    \/ Receive
    \/ ReceiveBattery
    \/ CheckRecording
    \/ CheckFile
    \/ WriteRow
    \/ WriteRowClosed
    \/ NoFileError
    \/ ReadCount
    \/ StoreCount
    \/ Flush
    \/ StartCheck
    \/ StartOpen
    \/ StartSetRecording
    \/ StartSetFile
    \/ StartResetCount
    \/ StopCheck
    \/ StopEndTime
    \/ StopTotal
    \/ StopClose
    \/ StopClearRecording
    \/ StopClearFile

\* segment_gait is not running: its default arguments, nothing computed
RecorderSpecInit ==
    /\ magnitude = <<>>
    /\ sample_rate = 194
    /\ movement_threshold = <<1, 50>>
    /\ variance_threshold = <<2, 1>>
    /\ frequency_threshold = <<3, 10>>
    /\ min_segment_seconds = <<2, 1>>
    /\ LocalsInit
    /\ RecorderInit

RecorderSpec == RecorderSpecInit /\ [][RecorderNext]_vars

(***************************************************************************)
(* Properties of segment_gait (checked under Spec).                        *)
(***************************************************************************)
Returned == pc = "done"

StrictlyIncreasing(b) == \A k \in 1..(Len(b) - 1) : b[k] < b[k + 1]

\* the length of segment k of the result, in samples
SegmentSamples(b, k) ==
    IF k < Len(b) THEN b[k + 1] - b[k] ELSE Len(magnitude) - b[k]

\* C1: for sample_rate > 0 the returned boundaries start at sample 0: the
\* merge pass never moves or replaces the initial boundary.
C1_FirstBoundaryIsZero ==
    (Returned /\ sample_rate > 0) => result.boundaries[1] = 0

\* C2: for sample_rate > 0 the durations of the result, in samples
\* (duration * sample_rate), add up to N = len(magnitude).
C2_DurationsPartitionSeries ==
    (Returned /\ sample_rate > 0) =>
        /\ \A k \in 1..Len(result.durations) : result.durations[k][2] = sample_rate
        /\ Sum([k \in 1..Len(result.durations) |-> result.durations[k][1]])
             = Len(magnitude)

\* C3: after every step of the merge pass, and in the returned result, the
\* boundaries are strictly increasing.
C3_BoundariesStrictlyIncreasing ==
    /\ StrictlyIncreasing(final_boundaries)
    /\ Returned => StrictlyIncreasing(result.boundaries)

C3_Witness ==
    /\ Returned
    /\ Len(result.boundaries) >= 3
    /\ \E k \in 1..Len(decisions) : decisions[k] = "overwrite"
    /\ \E k \in 1..Len(decisions) : decisions[k] = "append"

\* C4: in a step of the merge pass (candidate c = raw candidate i),
\*   (a) a MovementTransition candidate becomes final.last (appended or
\*       written over final.last), never discarded;
\*   (b) a kept MovementTransition boundary stays in place when c has its
\*       segment type;
\*   (c) a candidate of final.last's type that is closer than min_samples
\*       overwrites final.last if its confidence is strictly greater and is
\*       discarded (final unchanged) otherwise.
C4_MergeStep ==
    (pc = "merge" /\ i < Len(raw_boundaries)) =>
        LET k     == i + 1
            n     == Len(final_boundaries)
            same  == raw_types[k] = Last(final_types)
            close == raw_boundaries[k] - Last(final_boundaries) < min_samples
            isLast == /\ Last(final_boundaries') = raw_boundaries[k]
                      /\ Last(final_types') = raw_types[k]
                      /\ Last(final_confidence') = raw_confidence[k]
            discarded == /\ final_boundaries' = final_boundaries
                         /\ final_types' = final_types
                         /\ final_confidence' = final_confidence
        IN  /\ raw_kinds[k] = "MovementTransition" => isLast
            /\ (Last(final_kinds) = "MovementTransition" /\ same) =>
                   /\ Len(final_boundaries') >= n
                   /\ final_boundaries'[n] = final_boundaries[n]
                   /\ final_types'[n] = final_types[n]
            /\ (same /\ close) =>
                   IF raw_confidence[k] > Last(final_confidence)
                   THEN Len(final_boundaries') = n /\ isLast
                   ELSE discarded

\* C4: every step of the merge pass follows the priority policy (a), (b), (c)
\* above.
C4_MergePriority == [][C4_MergeStep]_vars

C4_Witness ==
    /\ Returned
    /\ \E k \in 2..Len(decisions) :
          decisions[k] = "overwrite" /\ raw_kinds[k] = "GaitChange"
    /\ \E k \in 2..Len(decisions) :
          decisions[k] = "discard"

\* C5: in a result with two or more segments every segment, the last one
\* included, is at least min_samples = floor(min_segment_seconds *
\* sample_rate) samples long.
C5_NoShortSegment ==
    (Returned /\ sample_rate > 0 /\ result.count >= 2) =>
        \A k \in 1..Len(result.boundaries) :
            SegmentSamples(result.boundaries, k)
                >= MinSamples(min_segment_seconds, sample_rate)

\* C6: for every sample_rate > 0 segment_gait returns a result and does not
\* raise.
C6_NoExceptionForPositiveRate ==
    sample_rate > 0 => pc # "raised"

\* C7: for every sample_rate <= 0 segment_gait fails with an error and
\* returns no result record.
C7_FailsFastOnNonPositiveRate ==
    sample_rate <= 0 => ~Returned

\* C8: for sample_rate > 0 and N < 2 * sample_rate the call returns exactly
\* one segment: boundaries [0], count 1, confidence 1.0, duration
\* N / sample_rate, type moving iff the variance of the whole series is
\* strictly greater than movement_threshold (stationary for the empty one).
C8_ShortInputSingleSegment ==
    (sample_rate > 0 /\ Len(magnitude) < 2 * sample_rate) =>
        /\ pc \in {"start", "done"}
        /\ Returned =>
            LET N == Len(magnitude)
                moving == /\ N > 0
                          /\ (N * SumSq(magnitude) - Sum(magnitude) * Sum(magnitude))
                                * movement_threshold[2]
                               > movement_threshold[1] * N * N
            IN  /\ result.boundaries = <<0>>
                /\ result.count = 1
                /\ result.confidence = <<10>>
                /\ result.durations = <<<<N, sample_rate>>>>
                /\ result.times = <<<<0, 1>>>>
                /\ result.types = <<IF moving THEN "moving" ELSE "stationary">>

C8_Witness ==
    /\ Returned
    /\ sample_rate > 0
    /\ Len(magnitude) = sample_rate
    /\ result.types = <<"moving">>
    /\ result.durations = <<<<sample_rate, sample_rate>>>>

\* C9: for every window k >= 1 the scan has passed, a GaitChange candidate
\* (type moving, confidence score[k]) is emitted at window_centers[k] iff
\* both windows k-1 and k are moving and var_change[k] holds; a frequency
\* change alone (score 0.4) emits nothing; a window whose movement state
\* flipped emits one MovementTransition candidate and no GaitChange.
Scanned == IF pc = "scan" THEN i ELSE Len(window_centers)

CandidatesAt(k) ==
    {r \in 2..Len(raw_boundaries) : raw_boundaries[r] = window_centers[k]}

C9_GaitChangeEmission ==
    \A k \in 2..Scanned :
        LET flipped == is_moving[k] # is_moving[k - 1]
            both    == is_moving[k] /\ is_moving[k - 1]
            gait    == {r \in CandidatesAt(k) : raw_kinds[r] = "GaitChange"}
            trans   == {r \in CandidatesAt(k) : raw_kinds[r] = "MovementTransition"}
        IN  /\ (gait # {}) <=> (both /\ var_change[k])
            /\ \A r \in gait : /\ raw_types[r] = "moving"
                               /\ raw_confidence[r] = gait_change_score[k]
                               /\ raw_confidence[r]
                                    = (IF freq_change[k] THEN 10 ELSE 6)
            /\ (freq_change[k] /\ ~var_change[k]) =>
                   gait_change_score[k] = 4 /\ CandidatesAt(k) = {}
            /\ flipped => Cardinality(trans) = 1 /\ gait = {}
            /\ ~flipped => trans = {}

C9_Witness ==
    /\ pc = "merge"
    /\ \E k \in 2..Len(window_centers) :
          freq_change[k] /\ ~var_change[k] /\ CandidatesAt(k) = {}
    /\ \E r \in 2..Len(raw_kinds) : raw_kinds[r] = "GaitChange"
    /\ \E r \in 2..Len(raw_kinds) : raw_kinds[r] = "MovementTransition"

(***************************************************************************)
(* Properties of the recorder (checked under RecorderSpec).                *)
(***************************************************************************)
RowsBeforeFooter(f) ==
    \A j, k \in 1..Len(f.lines) :
        (f.lines[j] \in {"end", "total"} /\ f.lines[k] = "row") => k < j

TotalMatchesRows(f) ==
    f.total # None => f.total[1] = CountRows(f.lines)

\* C10: under every interleaving of udp_listener with start_recording and
\* stop_recording, every sample row of a session file precedes its footer,
\* no write is attempted on a closed session file, and '# Total Samples'
\* equals the number of sample rows of the file.
C10_SessionFileIntegrity ==
    /\ ~closed_write
    /\ \A k \in 1..Len(files) :
          RowsBeforeFooter(files[k]) /\ TotalMatchesRows(files[k])

====
